---- MODULE Spec2Model ----
(***************************************************************************)
(* Model of the meal-context recommendation scorer of the Nourish          *)
(* pregnancy-nutrition app (smart recipe filtering module).                *)
(*                                                                         *)
(* Strings are TLA+ strings, i.e. sequences of characters: Len, SubSeq and *)
(* \o act on them, so substring containment and lower-casing are computed *)
(* character by character as String.prototype.includes / toLowerCase do.   *)
(***************************************************************************)
EXTENDS Integers, Sequences, FiniteSets, TLC

VARIABLES
    recipes,      \* caller's recipe pool handed to getSmartRecipesForMeal
    mealNumber,   \* meal-slot ordinal argument
    excludeIds,   \* set of recipe ids already eaten
    recipe,       \* argument of scoreRecipeForContext / enrichRecipeWithRetry
    context,      \* argument of scoreRecipeForContext
    score,        \* the local `let score` of scoreRecipeForContext
    detectedPurposes, \* the local `const purposes` of scoreRecipeForContext
    pc,           \* position of the running call
    ret,          \* value returned by the last completed call
    retries,      \* enrichRecipeWithRetry: the `retries` parameter
    attempt,      \* enrichRecipeWithRetry: the loop counter
    outcomes,     \* enrichRecipeWithRetry: <<recipe id, outcome>> of each enrichRecipe call
    waits,        \* enrichRecipeWithRetry: the sleep(waitTime) calls so far, in ms
    dbCount,      \* generator: rows of the recipes table
    currentCount, \* generator: the count main() read
    toGenerate,   \* generator: the number of recipes asked of the service
    generated,    \* generator: the number of recipes the service returned
    currentIndex, \* SwipeDeck: state currentIndex
    exitX,        \* SwipeDeck: state exitX
    timers,       \* SwipeDeck: pending setTimeout(advanceCard, 200) callbacks
    swiped        \* SwipeDeck: onSwipe invocations since the last reset

coreVars == <<recipes, mealNumber, excludeIds, recipe, context, score, detectedPurposes, pc, ret>>
coreVarsButPc == <<recipes, mealNumber, excludeIds, recipe, context, score, detectedPurposes, ret>>
enrichVars == <<retries, attempt, outcomes, waits>>
genVars == <<dbCount, currentCount, toGenerate, generated>>
deckVars == <<currentIndex, exitX, timers, swiped>>

vars == <<coreVars, enrichVars, genVars, deckVars>>

----------------------------------------------------------------------------
(* Bounds of the model *)

MaxPool == 3      \* longest recipe pool
MaxTags == 2      \* longest combinatorial pregnancy_tags list
MealSlack == 2    \* meal numbers range over -MealSlack .. 5 + MealSlack
MaxRetries == 3   \* largest `retries` argument of enrichRecipeWithRetry
GenSlack == 2     \* recipes the generation service may return beyond the number asked
MaxPending == 2   \* most advance timers of the SwipeDeck pending at once

----------------------------------------------------------------------------
(* String primitives *)

UpperChars == "ABCDEFGHIJKLMNOPQRSTUVWXYZ"
LowerChars == "abcdefghijklmnopqrstuvwxyz"

\* the letters String.prototype.toLowerCase changes, with their images
LowerOf ==
    [c \in {SubSeq(UpperChars, i, i) : i \in 1..Len(UpperChars)} |->
        LET i == CHOOSE j \in 1..Len(UpperChars) : SubSeq(UpperChars, j, j) = c
        IN  SubSeq(LowerChars, i, i)]

\* one character of String.prototype.toLowerCase
LowerChar(c) == IF c \in DOMAIN LowerOf THEN LowerOf[c] ELSE c

RECURSIVE toLowerCase(_)
toLowerCase(s) ==
    IF Len(s) = 0 THEN ""
    ELSE LowerChar(SubSeq(s, 1, 1)) \o toLowerCase(SubSeq(s, 2, Len(s)))

\* String.prototype.includes: k occurs in s as a contiguous substring
includes(s, k) ==
    \E i \in 0..(Len(s) - Len(k)) : SubSeq(s, i + 1, i + Len(k)) = k

\* Array.prototype.includes on a sequence
arrayIncludes(arr, x) == \E i \in 1..Len(arr) : arr[i] = x

----------------------------------------------------------------------------
(* Static configuration *)

EatingContext ==
    {"first_thing", "morning_fuel", "midday_sustain",
     "quick_bite", "substantial", "wind_down"}

MealPurpose == {"nausea_relief", "energy", "nutrient_dense", "hydrating"}

EATING_CONTEXT_CONFIG ==
    [c \in EatingContext |->
      CASE c = "first_thing" ->
             [label |-> "First Thing",
              description |-> "Light & gentle on the stomach",
              keywords |-> <<"crackers", "toast", "ginger", "tea", "dry", "bland", "light">>,
              maxCalories |-> 200,
              priorityPurposes |-> <<"nausea_relief">>]
        [] c = "morning_fuel" ->
             [label |-> "Morning Fuel",
              description |-> "Energy to start your day",
              keywords |-> <<"oatmeal", "smoothie", "yogurt", "fruit", "granola", "banana", "overnight">>,
              maxCalories |-> 400,
              priorityPurposes |-> <<"energy", "nutrient_dense">>]
        [] c = "midday_sustain" ->
             [label |-> "Midday Sustain",
              description |-> "Balanced nutrition",
              keywords |-> <<"salad", "bowl", "wrap", "sandwich", "quinoa", "lunch", "soup">>,
              maxCalories |-> 500,
              priorityPurposes |-> <<"nutrient_dense", "energy">>]
        [] c = "quick_bite" ->
             [label |-> "Quick Bite",
              description |-> "Easy grab-and-go",
              keywords |-> <<"bites", "snack", "nuts", "hummus", "energy", "small", "mini", "crackers">>,
              maxCalories |-> 250,
              priorityPurposes |-> <<"energy">>]
        [] c = "substantial" ->
             [label |-> "Substantial Meal",
              description |-> "Protein-rich nourishment",
              keywords |-> <<"chicken", "salmon", "fish", "beef", "steak", "dinner", "pasta", "stir-fry", "curry">>,
              maxCalories |-> 600,
              priorityPurposes |-> <<"nutrient_dense">>]
        [] c = "wind_down" ->
             [label |-> "Wind Down",
              description |-> "Calm & calcium-rich",
              keywords |-> <<"milk", "warm", "cheese", "cottage", "yogurt", "light", "evening">>,
              maxCalories |-> 300,
              priorityPurposes |-> <<"hydrating">>]]

----------------------------------------------------------------------------
(* ContextResolver *)

\* variant: meal numbers below 1 clamped to the first slot
getContextForMealNumberClamped(n) ==
    CASE n <= 1 -> "first_thing"
      [] n = 2 -> "morning_fuel"
      [] n = 3 -> "midday_sustain"
      [] n = 4 -> "quick_bite"
      [] n = 5 -> "substantial"
      [] OTHER -> "wind_down"

getContextForMealNumber(n) ==
    CASE n = 1 -> "first_thing"
      [] n = 2 -> "morning_fuel"
      [] n = 3 -> "midday_sustain"
      [] n = 4 -> "quick_bite"
      [] n = 5 -> "substantial"
      [] OTHER -> "wind_down"

\* variant: the description field is filled from the label
getContextInfoLabelTwice(n) ==
    LET ctx == getContextForMealNumber(n)
        config == EATING_CONTEXT_CONFIG[ctx]
    IN  [context |-> ctx, label |-> config.label, description |-> config.label]

getContextInfo(n) ==
    LET ctx == getContextForMealNumber(n)
        config == EATING_CONTEXT_CONFIG[ctx]
    IN  [context |-> ctx, label |-> config.label, description |-> config.description]

----------------------------------------------------------------------------
(* Purpose detection *)

\* `recipe.macros.calories || 0`: an absent or zero field reads as 0
caloriesOf(r) ==
    IF "calories" \in DOMAIN r.macros /\ r.macros.calories # 0
    THEN r.macros.calories ELSE 0

\* `recipe.macros.fat > 15`: undefined > 15 is false
fatAbove15(r) == "fat" \in DOMAIN r.macros /\ r.macros.fat > 15

lowerTags(r) ==
    [i \in 1..Len(r.pregnancy_tags) |-> toLowerCase(r.pregnancy_tags[i])]

some(tags, words) ==
    \E i \in 1..Len(tags) : \E w \in words : includes(tags[i], w)

\* variant: the fallback to energy is left out
detectPurposeNoDefault(r) ==
    LET tags  == lowerTags(r)
        title == toLowerCase(r.title)
        p1 == IF some(tags, {"nausea"}) \/ includes(title, "ginger") \/ includes(title, "bland")
              THEN <<"nausea_relief">> ELSE <<>>
        p2 == IF some(tags, {"energy", "protein"})
              THEN <<"energy">> ELSE <<>>
        p3 == IF some(tags, {"iron", "folic", "calcium"})
              THEN <<"nutrient_dense">> ELSE <<>>
        p4 == IF some(tags, {"hydrat"}) \/ includes(title, "soup") \/ includes(title, "smoothie")
              THEN <<"hydrating">> ELSE <<>>
    IN  p1 \o p2 \o p3 \o p4

\* variant: the four rules form an else-if chain
detectPurposeElseIf(r) ==
    LET tags  == lowerTags(r)
        title == toLowerCase(r.title)
    IN  IF some(tags, {"nausea"}) \/ includes(title, "ginger") \/ includes(title, "bland")
        THEN <<"nausea_relief">>
        ELSE IF some(tags, {"energy", "protein"})
        THEN <<"energy">>
        ELSE IF some(tags, {"iron", "folic", "calcium"})
        THEN <<"nutrient_dense">>
        ELSE IF some(tags, {"hydrat"}) \/ includes(title, "soup") \/ includes(title, "smoothie")
        THEN <<"hydrating">>
        ELSE <<"energy">>

detectPurpose(r) ==
    LET tags  == lowerTags(r)
        title == toLowerCase(r.title)
        p1 == IF some(tags, {"nausea"}) \/ includes(title, "ginger") \/ includes(title, "bland")
              THEN <<"nausea_relief">> ELSE <<>>
        p2 == IF some(tags, {"energy", "protein"})
              THEN <<"energy">> ELSE <<>>
        p3 == IF some(tags, {"iron", "folic", "calcium"})
              THEN <<"nutrient_dense">> ELSE <<>>
        p4 == IF some(tags, {"hydrat"}) \/ includes(title, "soup") \/ includes(title, "smoothie")
              THEN <<"hydrating">> ELSE <<>>
        purposes == p1 \o p2 \o p3 \o p4
    IN  IF Len(purposes) > 0 THEN purposes ELSE <<"energy">>

----------------------------------------------------------------------------
(* RecipeScorer: the contributions, one per section of the function *)

\* variant: a keyword must be a whole word of the title
titleKeywordScoreWholeWord(r, ctx) ==
    LET keywords   == EATING_CONTEXT_CONFIG[ctx].keywords
        titleLower == " " \o toLowerCase(r.title) \o " "
    IN  15 * Cardinality({k \in 1..Len(keywords) :
                             includes(titleLower, " " \o keywords[k] \o " ")})

\* variant: the title is compared without lower-casing
titleKeywordScoreCaseSensitive(r, ctx) ==
    LET keywords == EATING_CONTEXT_CONFIG[ctx].keywords
    IN  15 * Cardinality({k \in 1..Len(keywords) : includes(r.title, keywords[k])})

\* variant: the keyword loop stops at the first keyword found
titleKeywordScoreFirstOnly(r, ctx) ==
    LET keywords   == EATING_CONTEXT_CONFIG[ctx].keywords
        titleLower == toLowerCase(r.title)
    IN  IF \E k \in 1..Len(keywords) : includes(titleLower, keywords[k]) THEN 15 ELSE 0

titleKeywordScore(r, ctx) ==
    LET keywords   == EATING_CONTEXT_CONFIG[ctx].keywords
        titleLower == toLowerCase(r.title)
    IN  15 * Cardinality({k \in 1..Len(keywords) : includes(titleLower, keywords[k])})

\* variant: the inner loop tests the title instead of the tag
tagKeywordScoreOnTitle(r, ctx) ==
    LET keywords   == EATING_CONTEXT_CONFIG[ctx].keywords
        titleLower == toLowerCase(r.title)
    IN  10 * Cardinality({p \in (1..Len(r.pregnancy_tags)) \X (1..Len(keywords)) :
                             includes(titleLower, keywords[p[2]])})

\* variant: a tag counts once however many keywords it contains
tagKeywordScorePerTag(r, ctx) ==
    LET keywords == EATING_CONTEXT_CONFIG[ctx].keywords
        tags     == lowerTags(r)
    IN  10 * Cardinality({t \in 1..Len(tags) :
                             \E k \in 1..Len(keywords) : includes(tags[t], keywords[k])})

tagKeywordScore(r, ctx) ==
    LET keywords == EATING_CONTEXT_CONFIG[ctx].keywords
        tags     == lowerTags(r)
    IN  10 * Cardinality({p \in (1..Len(tags)) \X (1..Len(keywords)) :
                             includes(tags[p[1]], keywords[p[2]])})

\* variant: the fit test is >= instead of <=
calorieScoreFlipped(r, ctx) ==
    LET calories    == caloriesOf(r)
        maxCalories == EATING_CONTEXT_CONFIG[ctx].maxCalories
    IN  IF calories >= maxCalories THEN 10
        ELSE IF 2 * calories > 3 * maxCalories THEN -15
        ELSE 0

\* variant: `|| 0` is left out, so absent calories compare false both times
calorieScoreNoDefault(r, ctx) ==
    LET maxCalories == EATING_CONTEXT_CONFIG[ctx].maxCalories
    IN  IF "calories" \notin DOMAIN r.macros THEN 0
        ELSE IF r.macros.calories <= maxCalories THEN 10
        ELSE IF 2 * r.macros.calories > 3 * maxCalories THEN -15
        ELSE 0

\* variant: the overshoot test is >= instead of >
calorieScoreInclusive(r, ctx) ==
    LET calories    == caloriesOf(r)
        maxCalories == EATING_CONTEXT_CONFIG[ctx].maxCalories
    IN  IF calories <= maxCalories THEN 10
        ELSE IF 2 * calories >= 3 * maxCalories THEN -15
        ELSE 0

calorieScore(r, ctx) ==
    LET calories    == caloriesOf(r)
        maxCalories == EATING_CONTEXT_CONFIG[ctx].maxCalories
    IN  IF calories <= maxCalories THEN 10
        ELSE IF 2 * calories > 3 * maxCalories THEN -15
        ELSE 0

\* variant: the loop leaves at the first priority purpose found
purposeScoreCapped(r, ctx) ==
    LET purposes == detectPurpose(r)
        priority == EATING_CONTEXT_CONFIG[ctx].priorityPurposes
    IN  IF \E i \in 1..Len(priority) : arrayIncludes(purposes, priority[i]) THEN 20 ELSE 0

\* variant: the loop runs over the detected purposes without the membership test
purposeScoreAllDetected(r, ctx) == 20 * Len(detectPurpose(r))

purposeScore(r, ctx) ==
    LET purposes == detectPurpose(r)
        priority == EATING_CONTEXT_CONFIG[ctx].priorityPurposes
    IN  20 * Cardinality({i \in 1..Len(priority) : arrayIncludes(purposes, priority[i])})

\* variant: the first_thing bonus tests "cracker" only
specialScoreCrackerOnly(r, ctx) ==
    LET titleLower == toLowerCase(r.title)
        calories   == caloriesOf(r)
    IN  (IF ctx = "first_thing"
         THEN (IF includes(titleLower, "cracker") THEN 30 ELSE 0)
              + (IF fatAbove15(r) \/ calories > 300 THEN -25 ELSE 0)
         ELSE 0)
        + (IF ctx = "wind_down"
           THEN (IF includes(titleLower, "milk") \/ includes(titleLower, "yogurt")
                    \/ includes(titleLower, "cheese")
                 THEN 20 ELSE 0)
           ELSE 0)

\* variant: the wind_down bonus is added for each of the three words found
specialScorePerWord(r, ctx) ==
    LET titleLower == toLowerCase(r.title)
        calories   == caloriesOf(r)
    IN  (IF ctx = "first_thing"
         THEN (IF includes(titleLower, "ginger") \/ includes(titleLower, "cracker")
               THEN 30 ELSE 0)
              + (IF fatAbove15(r) \/ calories > 300 THEN -25 ELSE 0)
         ELSE 0)
        + (IF ctx = "wind_down"
           THEN 20 * Cardinality({w \in {"milk", "yogurt", "cheese"} : includes(titleLower, w)})
           ELSE 0)

\* variant: the heavy-food penalty is not guarded by the context
specialScoreAnyContext(r, ctx) ==
    LET titleLower == toLowerCase(r.title)
        calories   == caloriesOf(r)
    IN  (IF ctx = "first_thing"
         THEN (IF includes(titleLower, "ginger") \/ includes(titleLower, "cracker")
               THEN 30 ELSE 0)
         ELSE 0)
        + (IF fatAbove15(r) \/ calories > 300 THEN -25 ELSE 0)
        + (IF ctx = "wind_down"
           THEN (IF includes(titleLower, "milk") \/ includes(titleLower, "yogurt")
                    \/ includes(titleLower, "cheese")
                 THEN 20 ELSE 0)
           ELSE 0)

\* variant: the heavy-food calorie test is >= 300
specialScoreInclusive(r, ctx) ==
    LET titleLower == toLowerCase(r.title)
        calories   == caloriesOf(r)
    IN  (IF ctx = "first_thing"
         THEN (IF includes(titleLower, "ginger") \/ includes(titleLower, "cracker")
               THEN 30 ELSE 0)
              + (IF fatAbove15(r) \/ calories >= 300 THEN -25 ELSE 0)
         ELSE 0)
        + (IF ctx = "wind_down"
           THEN (IF includes(titleLower, "milk") \/ includes(titleLower, "yogurt")
                    \/ includes(titleLower, "cheese")
                 THEN 20 ELSE 0)
           ELSE 0)

\* variant: the fat test and the calorie test each subtract 25
specialScoreBothPenalties(r, ctx) ==
    LET titleLower == toLowerCase(r.title)
        calories   == caloriesOf(r)
    IN  (IF ctx = "first_thing"
         THEN (IF includes(titleLower, "ginger") \/ includes(titleLower, "cracker")
               THEN 30 ELSE 0)
              + (IF fatAbove15(r) THEN -25 ELSE 0)
              + (IF calories > 300 THEN -25 ELSE 0)
         ELSE 0)
        + (IF ctx = "wind_down"
           THEN (IF includes(titleLower, "milk") \/ includes(titleLower, "yogurt")
                    \/ includes(titleLower, "cheese")
                 THEN 20 ELSE 0)
           ELSE 0)

\* variant: the first_thing penalty hangs on an else of the bonus
specialScoreElse(r, ctx) ==
    LET titleLower == toLowerCase(r.title)
        calories   == caloriesOf(r)
    IN  (IF ctx = "first_thing"
         THEN (IF includes(titleLower, "ginger") \/ includes(titleLower, "cracker")
               THEN 30
               ELSE IF fatAbove15(r) \/ calories > 300 THEN -25 ELSE 0)
         ELSE 0)
        + (IF ctx = "wind_down"
           THEN (IF includes(titleLower, "milk") \/ includes(titleLower, "yogurt")
                    \/ includes(titleLower, "cheese")
                 THEN 20 ELSE 0)
           ELSE 0)

specialScore(r, ctx) ==
    LET titleLower == toLowerCase(r.title)
        calories   == caloriesOf(r)
    IN  (IF ctx = "first_thing"
         THEN (IF includes(titleLower, "ginger") \/ includes(titleLower, "cracker")
               THEN 30 ELSE 0)
              + (IF fatAbove15(r) \/ calories > 300 THEN -25 ELSE 0)
         ELSE 0)
        + (IF ctx = "wind_down"
           THEN (IF includes(titleLower, "milk") \/ includes(titleLower, "yogurt")
                    \/ includes(titleLower, "cheese")
                 THEN 20 ELSE 0)
           ELSE 0)

scoreRecipeForContext(r, ctx) ==
    titleKeywordScore(r, ctx) + tagKeywordScore(r, ctx) + calorieScore(r, ctx)
        + purposeScore(r, ctx) + specialScore(r, ctx)

----------------------------------------------------------------------------
(* RecipeScorer: ranking *)

\* variant: comparator a.score - b.score (ascending)
RECURSIVE insertByScoreAscending(_, _)
insertByScoreAscending(s, x) ==
    IF Len(s) = 0 THEN <<x>>
    ELSE IF x.score - Head(s).score >= 0
         THEN <<Head(s)>> \o insertByScoreAscending(Tail(s), x)
         ELSE <<x>> \o s

\* variant: an element is placed in front of the elements it ties with
RECURSIVE insertByScoreBeforeEqual(_, _)
insertByScoreBeforeEqual(s, x) ==
    IF Len(s) = 0 THEN <<x>>
    ELSE IF Head(s).score - x.score > 0
         THEN <<Head(s)>> \o insertByScoreBeforeEqual(Tail(s), x)
         ELSE <<x>> \o s

\* insertion of x behind every element the comparator does not order after it
RECURSIVE insertByScore(_, _)
insertByScore(s, x) ==
    IF Len(s) = 0 THEN <<x>>
    ELSE IF Head(s).score - x.score >= 0
         THEN <<Head(s)>> \o insertByScore(Tail(s), x)
         ELSE <<x>> \o s

RECURSIVE insertAllByScore(_, _)
insertAllByScore(acc, s) ==
    IF Len(s) = 0 THEN acc
    ELSE insertAllByScore(insertByScore(acc, Head(s)), Tail(s))

\* variant: a sort whose order among equal scores depends on the array's
\* length (stable for up to two elements, reversed ties above)
sortByScoreLengthDependent(s) ==
    IF Len(s) <= 2 THEN insertAllByScore(<<>>, s)
    ELSE insertAllByScore(<<>>, [i \in 1..Len(s) |-> s[Len(s) + 1 - i]])

\* Array.prototype.sort((a, b) => b.score - a.score): stable, descending
RECURSIVE sortByScore(_)
sortByScore(s) ==
    IF Len(s) = 0 THEN <<>>
    ELSE insertByScore(sortByScore(SubSeq(s, 1, Len(s) - 1)), s[Len(s)])

\* variant: the exclusion filter is left out
getSmartRecipesForMealUnfiltered(rs, n, exclude) ==
    LET ctx    == getContextForMealNumber(n)
        scored == [i \in 1..Len(rs) |->
                     [recipe |-> rs[i], score |-> scoreRecipeForContext(rs[i], ctx)]]
        sorted == sortByScore(scored)
    IN  [i \in 1..Len(sorted) |-> sorted[i].recipe]

getSmartRecipesForMeal(rs, n, exclude) ==
    LET ctx       == getContextForMealNumber(n)
        available == SelectSeq(rs, LAMBDA r : r.id \notin exclude)
        scored    == [i \in 1..Len(available) |->
                        [recipe |-> available[i],
                         score  |-> scoreRecipeForContext(available[i], ctx)]]
        sorted    == sortByScore(scored)
    IN  [i \in 1..Len(sorted) |-> sorted[i].recipe]

----------------------------------------------------------------------------
(* Inputs *)

Recipe(id, title, tags, macros) ==
    [id |-> id, title |-> title, pregnancy_tags |-> tags, macros |-> macros]

Macros(calories, fat) == [calories |-> calories, protein |-> 0, carbs |-> 0, fat |-> fat]

\* the recipes the ranking calls draw their pool from: the three seeded
\* recipes and a plain one
Catalog ==
    {Recipe("r1", "Ginger & Lemon Smoothie", <<"Nausea Relief", "Hydration">>, Macros(150, 1)),
     Recipe("r2", "Salmon Quinoa Bowl", <<"Omega-3", "High Protein">>, Macros(450, 15)),
     Recipe("r3", "Spinach & Berry Salad", <<"Folic Acid", "Fiber">>, Macros(220, 10)),
     Recipe("r4", "Plain Rice", <<>>, Macros(220, 1))}

CatalogIds == {r.id : r \in Catalog}

SeqsUpTo(S, n) == UNION {[1..k -> S] : k \in 0..n}

\* pools list each recipe at most once: recipe ids are primary keys
Pools ==
    {p \in SeqsUpTo(Catalog, MaxPool) : \A i, j \in 1..Len(p) : p[i] = p[j] => i = j}

MealNumbers == (0 - MealSlack)..(5 + MealSlack)

Titles ==
    {"", "Ginger Tea", "Grilled Salmon Steak", "Ginger Crackers", "Warm Milk",
     "Yogurt Smoothie", "Bland Soup", "CHEESE TOAST", "Plain Rice",
     "Yogurt Cheese Dip"}

TagVocabulary == {"High Protein", "Iron Rich", "Light Energy Snack"}

TagLists ==
    SeqsUpTo(TagVocabulary, MaxTags)
        \cup {<<"Nausea Relief">>, <<"Omega-3">>, <<"Nausea Relief", "Hydration">>}

\* calorie values on and next to both thresholds of a context, and the
\* first_thing heavy-food threshold
CalorieValues(ctx) ==
    LET m == EATING_CONTEXT_CONFIG[ctx].maxCalories
    IN  {0, m, m + 1, (3 * m) \div 2, (3 * m) \div 2 + 1, 300, 301}

MacroValues(ctx) ==
    {Macros(c, f) : c \in CalorieValues(ctx), f \in {15, 16}}
        \cup {[protein |-> 0, carbs |-> 0, fat |-> f] : f \in {15, 16}}
        \cup {[calories |-> c, protein |-> 0, carbs |-> 0] : c \in {0, 301}}

\* the two recipes the scoring scenarios name
Scenario1 ==
    Recipe("s1", "Ginger Tea", <<"Nausea Relief">>,
           [calories |-> 50, protein |-> 1, carbs |-> 10, fat |-> 0])

Scenario2 ==
    Recipe("s2", "Grilled Salmon Steak", <<"Omega-3">>,
           [calories |-> 650, protein |-> 40, carbs |-> 5, fat |-> 30])

ScenarioRecipes == {Scenario1, Scenario2}

RecipesFor(ctx) ==
    {Recipe("r0", t, g, m) : t \in Titles, g \in TagLists, m \in MacroValues(ctx)}
        \cup ScenarioRecipes \cup Catalog

NoRecipe == Recipe("", "", <<>>, Macros(0, 0))
NoRet == "none"

\* the components that take no part in a run of the other ones
EnrichIdle == retries = 0 /\ attempt = 0 /\ outcomes = <<>> /\ waits = <<>>

GenIdle == dbCount = 0 /\ currentCount = 0 /\ toGenerate = 0 /\ generated = 0

DeckIdle == currentIndex = 0 /\ exitX = 0 /\ timers = 0 /\ swiped = <<>>

----------------------------------------------------------------------------
(* The ranking interface: one call on a drawn (pool, meal number, exclusions) *)

Init ==
    /\ recipes \in Pools
    /\ mealNumber \in MealNumbers
    /\ excludeIds \in SUBSET CatalogIds
    /\ recipe = NoRecipe
    /\ context = "wind_down"
    /\ score = 0
    /\ detectedPurposes = <<>>
    /\ pc = "ready"
    /\ ret = NoRet
    /\ EnrichIdle
    /\ GenIdle
    /\ DeckIdle

CallGetContextForMealNumber ==
    /\ pc = "ready"
    /\ ret' = getContextForMealNumber(mealNumber)
    /\ pc' = "context"
    /\ UNCHANGED <<recipes, mealNumber, excludeIds, recipe, context, score, detectedPurposes, enrichVars, genVars, deckVars>>

CallGetContextInfo ==
    /\ pc = "ready"
    /\ ret' = getContextInfo(mealNumber)
    /\ pc' = "info"
    /\ UNCHANGED <<recipes, mealNumber, excludeIds, recipe, context, score, detectedPurposes, enrichVars, genVars, deckVars>>

\* variant: the comparator sort is run on the caller's array itself
CallGetSmartRecipesForMealInPlace ==
    /\ pc = "ready"
    /\ recipes' = getSmartRecipesForMeal(recipes, mealNumber, {})
    /\ ret' = getSmartRecipesForMeal(recipes, mealNumber, excludeIds)
    /\ pc' = "ranked"
    /\ UNCHANGED <<mealNumber, excludeIds, recipe, context, score, detectedPurposes, enrichVars, genVars, deckVars>>

CallGetSmartRecipesForMeal ==
    /\ pc = "ready"
    /\ ret' = getSmartRecipesForMeal(recipes, mealNumber, excludeIds)
    /\ pc' = "ranked"
    /\ UNCHANGED <<recipes, mealNumber, excludeIds, recipe, context, score, detectedPurposes, enrichVars, genVars, deckVars>>

Next ==
    \/ CallGetContextForMealNumber
    \/ CallGetContextInfo
    \/ CallGetSmartRecipesForMeal

Spec == Init /\ [][Next]_vars

----------------------------------------------------------------------------
(* scoreRecipeForContext, section by section, on a drawn (recipe, context) *)

ScoreInit ==
    /\ recipes = <<>>
    /\ mealNumber = 0
    /\ excludeIds = {}
    /\ context \in EatingContext
    /\ recipe \in RecipesFor(context)
    /\ score = 0
    /\ detectedPurposes = <<>>
    /\ pc = "title"
    /\ ret = NoRet
    /\ EnrichIdle
    /\ GenIdle
    /\ DeckIdle

ScoreStep(from, to, contribution) ==
    /\ pc = from
    /\ score' = score + contribution
    /\ pc' = to
    /\ UNCHANGED <<recipes, mealNumber, excludeIds, recipe, context, detectedPurposes, ret, enrichVars, genVars, deckVars>>

ScoreTitleKeywords == ScoreStep("title", "tags", titleKeywordScore(recipe, context))

ScoreTagKeywords == ScoreStep("tags", "calories", tagKeywordScore(recipe, context))

ScoreCalories == ScoreStep("calories", "purpose", calorieScore(recipe, context))

ScorePurposes ==
    /\ pc = "purpose"
    /\ detectedPurposes' = detectPurpose(recipe)
    /\ score' = score + purposeScore(recipe, context)
    /\ pc' = "special"
    /\ UNCHANGED <<recipes, mealNumber, excludeIds, recipe, context, ret, enrichVars, genVars, deckVars>>

ScoreSpecialCases == ScoreStep("special", "return", specialScore(recipe, context))

ScoreReturn ==
    /\ pc = "return"
    /\ ret' = score
    /\ pc' = "scored"
    /\ UNCHANGED <<recipes, mealNumber, excludeIds, recipe, context, score, detectedPurposes, enrichVars, genVars, deckVars>>

ScoreNext ==
    \/ ScoreTitleKeywords
    \/ ScoreTagKeywords
    \/ ScoreCalories
    \/ ScorePurposes
    \/ ScoreSpecialCases
    \/ ScoreReturn

ScoreSpec == ScoreInit /\ [][ScoreNext]_vars

----------------------------------------------------------------------------
(* Enrichment script: enrichRecipeWithRetry on a drawn (recipe, retries) *)

DefaultRetries == 3

\* what one call of enrichRecipe can end in: the enriched fields, or an error
\* thrown by the generation service or by JSON.parse, with or without message
ErrorMessages ==
    {"[429 Too Many Requests] quota exceeded", "RESOURCE_EXHAUSTED",
     "Unexpected token < in JSON at position 0", "fetch failed"}

Errors == {[kind |-> "error", message |-> m] : m \in ErrorMessages} \cup {[kind |-> "error"]}

Enriched(r) == [kind |-> "enriched", id |-> r.id]

NullResult == [kind |-> "null"]

\* error.message?.includes('429') || error.message?.includes('RESOURCE_EXHAUSTED')
isRateLimit(error) ==
    /\ "message" \in DOMAIN error
    /\ (includes(error.message, "429") \/ includes(error.message, "RESOURCE_EXHAUSTED"))

RECURSIVE pow2(_)
pow2(n) == IF n = 0 THEN 1 ELSE 2 * pow2(n - 1)

\* Math.pow(2, attempt) * 10000
waitTime(n) == pow2(n) * 10000

\* variant: the loop counts from 0 with the same <= test
attemptAllowedFromZero(n, max) == n - 1 <= max

\* the loop test `attempt <= retries`
attemptAllowed(n, max) == n <= max

RetryCounts == 0..MaxRetries \cup {DefaultRetries}

EnrichInit ==
    /\ recipes = <<>>
    /\ mealNumber = 0
    /\ excludeIds = {}
    /\ recipe \in Catalog
    /\ context = "wind_down"
    /\ score = 0
    /\ detectedPurposes = <<>>
    /\ pc = "enrich_loop"
    /\ ret = NoRet
    /\ retries \in RetryCounts
    /\ attempt = 1
    /\ outcomes = <<>>
    /\ waits = <<>>
    /\ GenIdle
    /\ DeckIdle

\* for (let attempt = 1; attempt <= retries; ...), and `return null` behind it
EnrichLoopTest ==
    /\ pc = "enrich_loop"
    /\ IF attemptAllowed(attempt, retries)
       THEN pc' = "enrich_try" /\ ret' = ret
       ELSE pc' = "enrich_returned" /\ ret' = NullResult
    /\ UNCHANGED <<recipes, mealNumber, excludeIds, recipe, context, score, detectedPurposes>>
    /\ UNCHANGED <<enrichVars, genVars, deckVars>>

\* return await enrichRecipe(recipe): the call succeeds or throws
EnrichTry ==
    /\ pc = "enrich_try"
    /\ \E o \in {Enriched(recipe)} \cup Errors :
          /\ outcomes' = Append(outcomes, <<recipe.id, o>>)
          /\ IF o.kind = "enriched"
             THEN pc' = "enrich_returned" /\ ret' = o
             ELSE pc' = "enrich_catch" /\ ret' = ret
    /\ UNCHANGED <<recipes, mealNumber, excludeIds, recipe, context, score, detectedPurposes>>
    /\ UNCHANGED <<retries, attempt, waits, genVars, deckVars>>

\* catch (error): a rate-limit error starts the sleep, any other is rethrown
EnrichCatch ==
    /\ pc = "enrich_catch"
    /\ LET error == outcomes[Len(outcomes)][2]
       IN  IF isRateLimit(error)
           THEN /\ waits' = Append(waits, waitTime(attempt))
                /\ pc' = "enrich_sleep"
                /\ ret' = ret
           ELSE /\ waits' = waits
                /\ pc' = "enrich_thrown"
                /\ ret' = error
    /\ UNCHANGED <<recipes, mealNumber, excludeIds, recipe, context, score, detectedPurposes>>
    /\ UNCHANGED <<retries, attempt, outcomes, genVars, deckVars>>

\* the sleep is over: attempt++ and back to the loop test
EnrichWake ==
    /\ pc = "enrich_sleep"
    /\ attempt' = attempt + 1
    /\ pc' = "enrich_loop"
    /\ UNCHANGED <<recipes, mealNumber, excludeIds, recipe, context, score, detectedPurposes, ret>>
    /\ UNCHANGED <<retries, outcomes, waits, genVars, deckVars>>

EnrichNext ==
    \/ EnrichLoopTest
    \/ EnrichTry
    \/ EnrichCatch
    \/ EnrichWake

EnrichSpec == EnrichInit /\ [][EnrichNext]_vars

----------------------------------------------------------------------------
(* Recipe generator: runs of main() against the recipes table *)

BATCH_SIZE == 10
MAX_RECIPES == 200

Min(a, b) == IF a <= b THEN a ELSE b

\* table sizes a first run can find: an empty table and the sizes around the
\* last batch before the maximum
StartCounts == {0} \cup ((MAX_RECIPES - BATCH_SIZE - GenSlack)..MAX_RECIPES)

\* lengths of the array generateRecipes(count) can return: [] on an error,
\* otherwise whatever array the service's answer parses to
GeneratedCounts(count) == 0..(count + GenSlack)

GenInit ==
    /\ recipes = <<>>
    /\ mealNumber = 0
    /\ excludeIds = {}
    /\ recipe = NoRecipe
    /\ context = "wind_down"
    /\ score = 0
    /\ detectedPurposes = <<>>
    /\ pc = "gen_count"
    /\ ret = NoRet
    /\ EnrichIdle
    /\ dbCount \in StartCounts
    /\ currentCount = 0
    /\ toGenerate = 0
    /\ generated = 0
    /\ DeckIdle

\* the count query, the MAX_RECIPES test and toGenerate
GenCheckCount ==
    /\ pc = "gen_count"
    /\ currentCount' = dbCount
    /\ IF currentCount' >= MAX_RECIPES
       THEN pc' = "gen_done" /\ toGenerate' = toGenerate
       ELSE pc' = "gen_generate" /\ toGenerate' = Min(BATCH_SIZE, MAX_RECIPES - currentCount')
    /\ UNCHANGED <<coreVarsButPc, enrichVars, deckVars, dbCount, generated>>

\* const recipes = await generateRecipes(toGenerate), and the empty test
GenGenerate ==
    /\ pc = "gen_generate"
    /\ \E k \in GeneratedCounts(toGenerate) :
          /\ generated' = k
          /\ pc' = IF k = 0 THEN "gen_done" ELSE "gen_insert"
    /\ UNCHANGED <<coreVarsButPc, enrichVars, deckVars, dbCount, currentCount, toGenerate>>

\* one image per recipe, then supabase.from('recipes').insert(recipesWithImages),
\* which adds every row or reports an error
GenInsert ==
    /\ pc = "gen_insert"
    /\ \E inserted \in BOOLEAN :
          dbCount' = IF inserted THEN dbCount + generated ELSE dbCount
    /\ pc' = "gen_done"
    /\ UNCHANGED <<coreVarsButPc, enrichVars, deckVars, currentCount, toGenerate, generated>>

\* the script is started again
GenRunAgain ==
    /\ pc = "gen_done"
    /\ pc' = "gen_count"
    /\ currentCount' = 0
    /\ toGenerate' = 0
    /\ generated' = 0
    /\ UNCHANGED <<coreVarsButPc, enrichVars, deckVars, dbCount>>

GenNext ==
    \/ GenCheckCount
    \/ GenGenerate
    \/ GenInsert
    \/ GenRunAgain

GenSpec == GenInit /\ [][GenNext]_vars

----------------------------------------------------------------------------
(* SwipeDeck: drag releases, button clicks, advance timers and Start Over *)

\* const currentRecipe = recipes[currentIndex], undefined behind the last card
hasCurrentRecipe == currentIndex < Len(recipes)

currentRecipe == recipes[currentIndex + 1]

\* horizontal offsets of a drag release, on both sides of the two thresholds
DragOffsets == {-101, -100, 0, 100, 101}

DeckInit ==
    /\ recipes \in Pools
    /\ mealNumber = 0
    /\ excludeIds = {}
    /\ recipe = NoRecipe
    /\ context = "wind_down"
    /\ score = 0
    /\ detectedPurposes = <<>>
    /\ pc = "deck"
    /\ ret = NoRet
    /\ EnrichIdle
    /\ GenIdle
    /\ DeckIdle

\* setExitX(x); onSwipe(currentRecipe.id, action); setTimeout(advanceCard, 200)
swipe(x, action) ==
    /\ exitX' = x
    /\ swiped' = Append(swiped, <<currentRecipe.id, action>>)
    /\ timers' = timers + 1
    /\ UNCHANGED <<coreVars, enrichVars, genVars, currentIndex>>

\* handleDragEnd: the card is on screen only while currentRecipe is defined
DeckDragEnd ==
    /\ hasCurrentRecipe
    /\ timers < MaxPending
    /\ \E offset \in DragOffsets :
          IF offset > 100 THEN swipe(200, "liked")
          ELSE IF offset < -100 THEN swipe(-200, "passed")
          ELSE UNCHANGED vars

\* onClick of the pass button
DeckClickPass ==
    /\ hasCurrentRecipe
    /\ timers < MaxPending
    /\ swipe(-200, "passed")

\* onClick of the like button
DeckClickLike ==
    /\ hasCurrentRecipe
    /\ timers < MaxPending
    /\ swipe(200, "liked")

\* a pending timer fires: advanceCard
DeckAdvanceCard ==
    /\ timers > 0
    /\ timers' = timers - 1
    /\ currentIndex' = currentIndex + 1
    /\ exitX' = 0
    /\ UNCHANGED <<coreVars, enrichVars, genVars, swiped>>

\* onClick of "Start Over", shown while currentRecipe is undefined; the record
\* of onSwipe calls starts afresh
DeckStartOver ==
    /\ ~hasCurrentRecipe
    /\ currentIndex' = 0
    /\ swiped' = <<>>
    /\ UNCHANGED <<coreVars, enrichVars, genVars, exitX, timers>>

DeckNext ==
    \/ DeckDragEnd
    \/ DeckClickPass
    \/ DeckClickLike
    \/ DeckAdvanceCard
    \/ DeckStartOver

DeckSpec == DeckInit /\ [][DeckNext]_vars

----------------------------------------------------------------------------
(* Vocabulary of the properties *)

Range(s) == {s[i] : i \in 1..Len(s)}

UniqueIds(rs) == \A i, j \in 1..Len(rs) : rs[i].id = rs[j].id => i = j

\* number of keywords of the list kws that occur in text, one by one
RECURSIVE CountMatches(_, _)
CountMatches(text, kws) ==
    IF Len(kws) = 0 THEN 0
    ELSE (IF includes(text, Head(kws)) THEN 1 ELSE 0) + CountMatches(text, Tail(kws))

\* number of (tag, keyword) pairs of r that match, tag by tag
RECURSIVE CountTagMatches(_, _)
CountTagMatches(tags, kws) ==
    IF Len(tags) = 0 THEN 0
    ELSE CountMatches(toLowerCase(Head(tags)), kws) + CountTagMatches(Tail(tags), kws)

ConfigOf(ctx) == EATING_CONTEXT_CONFIG[ctx]

\* score accumulated by the sections that precede the purpose section
BeforePurpose(r, ctx) ==
    titleKeywordScore(r, ctx) + tagKeywordScore(r, ctx) + calorieScore(r, ctx)

HasMacros(r) == {"calories", "fat"} \subseteq DOMAIN r.macros

----------------------------------------------------------------------------
(* Properties of the context resolver and of the ranking (Spec) *)

\* C1: getContextForMealNumber maps 1..5 to first_thing, morning_fuel,
\* midday_sustain, quick_bite, substantial and every other integer to
\* wind_down; the result always has an entry in EATING_CONTEXT_CONFIG.
C1_ContextForMealNumber ==
    pc = "context" =>
        /\ ret \in DOMAIN EATING_CONTEXT_CONFIG
        /\ ret = IF mealNumber \in 1..5
                 THEN <<"first_thing", "morning_fuel", "midday_sustain",
                        "quick_bite", "substantial">>[mealNumber]
                 ELSE "wind_down"

C1_Witness == pc = "context" /\ mealNumber < 0 /\ ret = "wind_down"

\* C2: with unique ids in the pool, no returned recipe is excluded, every
\* non-excluded recipe of the pool is returned exactly once, nothing else is
\* returned, and an empty or fully excluded pool gives the empty sequence.
C2_ExclusionCorrectness ==
    (pc = "ranked" /\ UniqueIds(recipes)) =>
        /\ \A i \in 1..Len(ret) : ret[i].id \notin excludeIds
        /\ \A j \in 1..Len(recipes) :
              recipes[j].id \notin excludeIds =>
                  Cardinality({i \in 1..Len(ret) : ret[i] = recipes[j]}) = 1
        /\ \A i \in 1..Len(ret) : ret[i] \in Range(recipes)
        /\ (\A j \in 1..Len(recipes) : recipes[j].id \in excludeIds) => Len(ret) = 0

C2_Witness ==
    /\ pc = "ranked"
    /\ UniqueIds(recipes)
    /\ Len(recipes) = 3
    /\ recipes[2].id \in excludeIds
    /\ Len(ret) = 2

\* C3: the returned sequence is ordered by score for the resolved context,
\* descending: each element scores at least as much as its successor.
C3_SortedDescending ==
    pc = "ranked" =>
        \A i \in 1..(Len(ret) - 1) :
            scoreRecipeForContext(ret[i], getContextForMealNumber(mealNumber))
                >= scoreRecipeForContext(ret[i + 1], getContextForMealNumber(mealNumber))

C3_Witness ==
    /\ pc = "ranked"
    /\ excludeIds = {}
    /\ Len(recipes) = 3
    /\ Len(ret) = 3
    /\ ret[1] = recipes[3]
    /\ scoreRecipeForContext(ret[1], getContextForMealNumber(mealNumber))
          > scoreRecipeForContext(ret[3], getContextForMealNumber(mealNumber))

\* C4: two different non-excluded recipes with equal score keep, in the
\* output, the relative order their occurrences have in the input pool.
C4_StableRanking ==
    pc = "ranked" =>
        \A a, b \in Range(recipes) :
            (/\ a # b
             /\ a.id \notin excludeIds
             /\ b.id \notin excludeIds
             /\ scoreRecipeForContext(a, getContextForMealNumber(mealNumber))
                  = scoreRecipeForContext(b, getContextForMealNumber(mealNumber)))
            => SelectSeq(ret, LAMBDA r : r \in {a, b})
                  = SelectSeq(recipes, LAMBDA r : r \in {a, b})

C4_Witness ==
    /\ pc = "ranked"
    /\ excludeIds = {}
    /\ Len(recipes) = 3
    /\ Len(ret) = 3
    /\ recipes[1] # recipes[2]
    /\ scoreRecipeForContext(recipes[1], getContextForMealNumber(mealNumber))
          = scoreRecipeForContext(recipes[2], getContextForMealNumber(mealNumber))
    /\ ret = <<recipes[3], recipes[1], recipes[2]>>

\* C21: a call of getSmartRecipesForMeal, getContextInfo or
\* getContextForMealNumber leaves the caller's pool (its order, its length and
\* every recipe in it), the exclusion set and the meal number as they were;
\* the ranking is returned in a sequence of its own, whose elements are
\* recipes of the pool, unaltered.
C21_FrameCondition ==
    [][pc = "ready" =>
          /\ Len(recipes') = Len(recipes)
          /\ \A i \in 1..Len(recipes) : recipes'[i] = recipes[i]
          /\ excludeIds' = excludeIds
          /\ mealNumber' = mealNumber
          /\ (pc' = "ranked" => \A i \in 1..Len(ret') : ret'[i] \in Range(recipes))]_vars

C21_Witness ==
    /\ pc = "ranked"
    /\ Len(recipes) = 3
    /\ excludeIds = {"r4"}
    /\ Len(ret) = 3
    /\ ret # recipes
    /\ recipes[1] = ret[3]

\* C23: getContextInfo(n) returns exactly the fields context, label and
\* description, where context is the context resolved for n and label and
\* description are those of its configuration entry; for every n outside
\* 1..5 this is the wind_down entry, labelled "Wind Down".
C23_ContextInfo ==
    pc = "info" =>
        /\ DOMAIN ret = {"context", "label", "description"}
        /\ ret.context = IF mealNumber \in 1..5
                         THEN <<"first_thing", "morning_fuel", "midday_sustain",
                                "quick_bite", "substantial">>[mealNumber]
                         ELSE "wind_down"
        /\ ret.label = ConfigOf(ret.context).label
        /\ ret.description = ConfigOf(ret.context).description
        /\ mealNumber \notin 1..5 =>
              /\ ret.label = "Wind Down"
              /\ ret.description = "Calm & calcium-rich"

C23_Witness ==
    /\ pc = "info"
    /\ mealNumber = 6
    /\ ret = [context |-> "wind_down", label |-> "Wind Down",
              description |-> "Calm & calcium-rich"]

\* C26: with unique ids in the pool, the ranking for the exclusion set
\* enlarged by any id x is the ranking returned for the exclusion set itself
\* with the recipe of id x taken out, the others keeping their order.
C26_ExclusionRemovesOnly ==
    (pc = "ranked" /\ UniqueIds(recipes)) =>
        \A x \in CatalogIds :
            getSmartRecipesForMeal(recipes, mealNumber, excludeIds \cup {x})
                = SelectSeq(ret, LAMBDA r : r.id # x)

C26_Witness ==
    /\ pc = "ranked"
    /\ UniqueIds(recipes)
    /\ Len(recipes) = 3
    /\ Len(ret) = 3
    /\ ret[1] = recipes[2]
    /\ getSmartRecipesForMeal(recipes, mealNumber, excludeIds \cup {ret[2].id})
          = <<ret[1], ret[3]>>

----------------------------------------------------------------------------
(* Properties of scoreRecipeForContext (ScoreSpec) *)

\* C5: the calorie section adds +10 when calories <= maxCalories (equality
\* included), -15 when calories > 1.5 * maxCalories, and 0 in between
\* (1.5 * maxCalories included); the three bands are exclusive and exhaustive.
C5_CalorieBands ==
    [][(pc = "calories" /\ "calories" \in DOMAIN recipe.macros) =>
          LET c == recipe.macros.calories
              m == ConfigOf(context).maxCalories
              fit   == c <= m
              over  == 2 * c > 3 * m
              inner == m < c /\ 2 * c <= 3 * m
          IN  /\ (fit => score' - score = 10)
              /\ (over => score' - score = 0 - 15)
              /\ (inner => score' - score = 0)
              /\ Cardinality({b \in {"fit", "over", "inner"} :
                                 \/ b = "fit" /\ fit
                                 \/ b = "over" /\ over
                                 \/ b = "inner" /\ inner}) = 1]_vars

C5_Witness ==
    /\ pc = "purpose"
    /\ "calories" \in DOMAIN recipe.macros
    /\ 2 * recipe.macros.calories = 3 * ConfigOf(context).maxCalories
    /\ score = titleKeywordScore(recipe, context) + tagKeywordScore(recipe, context)

\* C6: the title section adds +15 for each keyword of the context that is a
\* substring of the lower-cased title, and nothing for the others.
C6_TitleKeywords ==
    [][pc = "title" =>
          score' - score
              = 15 * CountMatches(toLowerCase(recipe.title), ConfigOf(context).keywords)]_vars

C6_Witness ==
    /\ pc = "tags"
    /\ context = "first_thing"
    /\ recipe.title = "Grilled Salmon Steak"
    /\ score = 15

\* C7: the tag section adds +10 for every (tag, keyword) pair in which the
\* lower-cased tag contains the keyword; an empty tag list adds 0.
C7_TagKeywords ==
    [][pc = "tags" =>
          /\ score' - score
                = 10 * CountTagMatches(recipe.pregnancy_tags, ConfigOf(context).keywords)
          /\ (Len(recipe.pregnancy_tags) = 0 => score' = score)]_vars

C7_Witness ==
    /\ pc = "calories"
    /\ context = "quick_bite"
    /\ recipe.pregnancy_tags = <<"Light Energy Snack", "Light Energy Snack">>
    /\ score = titleKeywordScore(recipe, context) + 40

\* C8: the purpose section adds +20 for every purpose that is both detected
\* for the recipe and a priority purpose of the context, without a cap.
C8_PurposeAlignment ==
    [][pc = "purpose" =>
          score' - score
              = 20 * Cardinality(Range(detectPurpose(recipe))
                                   \cap Range(ConfigOf(context).priorityPurposes))]_vars

C8_Witness ==
    /\ pc = "special"
    /\ context = "morning_fuel"
    /\ Range(detectPurpose(recipe)) = {"energy", "nutrient_dense"}
    /\ score = BeforePurpose(recipe, context) + 40

\* C9 (as claimed): every context has exactly one priority purpose, so the
\* purpose section adds at most +20.
C9_SinglePriorityPurpose ==
    pc = "special" =>
        /\ Len(ConfigOf(context).priorityPurposes) = 1
        /\ score - BeforePurpose(recipe, context) <= 20

\* C9 (amended): every context has one priority purpose except morning_fuel
\* and midday_sustain, which have the two purposes energy and nutrient_dense;
\* the purpose section adds at most +20 per priority purpose, so at most +40.
C9_OneOrTwoPriorityPurposes ==
    pc = "special" =>
        LET priority == ConfigOf(context).priorityPurposes
        IN  /\ Len(priority) = IF context \in {"morning_fuel", "midday_sustain"} THEN 2 ELSE 1
            /\ (Len(priority) = 2 => Range(priority) = {"energy", "nutrient_dense"})
            /\ score - BeforePurpose(recipe, context) <= 20 * Len(priority)
            /\ score - BeforePurpose(recipe, context) >= 0

C9_Witness ==
    /\ pc = "special"
    /\ context = "midday_sustain"
    /\ score - BeforePurpose(recipe, context) = 40

\* C10: for first_thing the special-case section adds +30 once when the title
\* contains "ginger" or "cracker" and, independently, -25 once when fat > 15
\* or calories > 300; both apply together (+5), on top of the other sections.
C10_FirstThingOverride ==
    [][(pc = "special" /\ context = "first_thing" /\ HasMacros(recipe)) =>
          LET title == toLowerCase(recipe.title)
              bonus == IF includes(title, "ginger") \/ includes(title, "cracker")
                       THEN 30 ELSE 0
              penalty == IF recipe.macros.fat > 15 \/ recipe.macros.calories > 300
                         THEN 25 ELSE 0
          IN  /\ score' - score = bonus - penalty
              /\ score' = BeforePurpose(recipe, context) + purposeScore(recipe, context)
                            + bonus - penalty]_vars

C10_Witness ==
    /\ pc = "return"
    /\ context = "first_thing"
    /\ recipe.title = "Ginger Crackers"
    /\ HasMacros(recipe)
    /\ recipe.macros.fat > 15
    /\ recipe.macros.calories > 300
    /\ score = BeforePurpose(recipe, context) + purposeScore(recipe, context) + 5

\* C11: for wind_down the special-case section adds +20 once when the
\* lower-cased title contains "milk", "yogurt" or "cheese" and 0 otherwise;
\* the +15 title-keyword bonuses of those words are kept besides it.
C11_WindDownOverride ==
    [][(pc = "special" /\ context = "wind_down") =>
          LET title == toLowerCase(recipe.title)
              words == {w \in {"milk", "yogurt", "cheese"} : includes(title, w)}
              bonus == IF words # {} THEN 20 ELSE 0
          IN  /\ score' - score = bonus
              /\ score' >= 15 * Cardinality(words) + bonus
                             + tagKeywordScore(recipe, context)
                             + calorieScore(recipe, context)]_vars

C11_Witness ==
    /\ pc = "return"
    /\ context = "wind_down"
    /\ recipe.title = "Yogurt Cheese Dip"
    /\ score = BeforePurpose(recipe, context) + purposeScore(recipe, context) + 20
    /\ titleKeywordScore(recipe, context) = 30

\* the sum of the four general contributions, from the rules as stated
GeneralScore(r, ctx) ==
    LET c == caloriesOf(r)
        m == ConfigOf(ctx).maxCalories
    IN  15 * CountMatches(toLowerCase(r.title), ConfigOf(ctx).keywords)
          + 10 * CountTagMatches(r.pregnancy_tags, ConfigOf(ctx).keywords)
          + (IF c <= m THEN 10 ELSE IF 2 * c > 3 * m THEN 0 - 15 ELSE 0)
          + 20 * Cardinality(Range(detectPurpose(r)) \cap Range(ConfigOf(ctx).priorityPurposes))

\* r with its fat moved to the other side of the heavy-food threshold
FatFlipped(r) ==
    [r EXCEPT !.macros = [k \in DOMAIN r.macros \cup {"fat"} |->
        IF k = "fat" THEN (IF fatAbove15(r) THEN 0 ELSE 30) ELSE r.macros[k]]]

\* C12: for morning_fuel, midday_sustain, quick_bite and substantial the
\* returned score is the sum of the four general contributions and does not
\* change with the recipe's fat.
C12_NoSpecialCaseElsewhere ==
    [][(pc = "return"
          /\ context \in {"morning_fuel", "midday_sustain", "quick_bite", "substantial"}) =>
          /\ ret' = GeneralScore(recipe, context)
          /\ ret' = scoreRecipeForContext(FatFlipped(recipe), context)]_vars

C12_Witness ==
    /\ pc = "scored"
    /\ context = "substantial"
    /\ recipe.title = "Grilled Salmon Steak"
    /\ fatAbove15(recipe)
    /\ caloriesOf(recipe) > 300
    /\ ret >= 30

\* the four detection rules, from their statement
RuleHolds(p, r) ==
    LET title == toLowerCase(r.title)
        tags  == [i \in 1..Len(r.pregnancy_tags) |-> toLowerCase(r.pregnancy_tags[i])]
        tagHas(w) == \E i \in 1..Len(tags) : includes(tags[i], w)
    IN  CASE p = "nausea_relief" ->
               tagHas("nausea") \/ includes(title, "ginger") \/ includes(title, "bland")
          [] p = "energy" -> tagHas("energy") \/ tagHas("protein")
          [] p = "nutrient_dense" -> tagHas("iron") \/ tagHas("folic") \/ tagHas("calcium")
          [] p = "hydrating" ->
               tagHas("hydrat") \/ includes(title, "soup") \/ includes(title, "smoothie")

\* the state in which detectPurpose has just returned
PurposesDetected == pc = "special"

\* C13: the detected purposes are never empty, all are MealPurpose values,
\* and they are exactly energy when none of the four rules matches.
C13_PurposeNonEmpty ==
    PurposesDetected =>
        /\ Len(detectedPurposes) >= 1
        /\ Range(detectedPurposes) \subseteq MealPurpose
        /\ (\A p \in MealPurpose : ~RuleHolds(p, recipe)) => detectedPurposes = <<"energy">>

C13_Witness ==
    /\ PurposesDetected
    /\ recipe.title = "Plain Rice"
    /\ recipe.pregnancy_tags = <<"Omega-3">>
    /\ detectedPurposes = <<"energy">>

\* C14: when at least one rule matches, a purpose is detected iff its own
\* rule matches, whatever the other rules do, and no purpose is listed twice.
C14_RulesIndependent ==
    (PurposesDetected /\ \E p \in MealPurpose : RuleHolds(p, recipe)) =>
        /\ \A p \in MealPurpose : p \in Range(detectedPurposes) <=> RuleHolds(p, recipe)
        /\ Cardinality(Range(detectedPurposes)) = Len(detectedPurposes)

C14_Witness ==
    /\ PurposesDetected
    /\ recipe.title = "Bland Soup"
    /\ recipe.pregnancy_tags = <<"High Protein", "Iron Rich">>
    /\ detectedPurposes = <<"nausea_relief", "energy", "nutrient_dense", "hydrating">>

\* C15: a recipe whose title contains "ginger", with calories <= 200 and
\* fat <= 15, scores more than 60 against first_thing.
C15_GingerExceeds60 ==
    (/\ pc = "scored"
     /\ context = "first_thing"
     /\ includes(toLowerCase(recipe.title), "ginger")
     /\ HasMacros(recipe)
     /\ recipe.macros.calories <= 200
     /\ recipe.macros.fat <= 15) => ret > 60

C15_Witness ==
    /\ pc = "scored"
    /\ context = "first_thing"
    /\ recipe.title = "Ginger & Lemon Smoothie"
    /\ ret = 75

AtScenario(r, position) == pc = position /\ recipe = r /\ context = "first_thing"

\* C16 (as claimed): for the Scenario 1 recipe against first_thing the tag
\* section adds at least +10 and the title matches "ginger".
C16_TagAddsAtLeast10 ==
    AtScenario(Scenario1, "calories") =>
        /\ score - 15 * CountMatches(toLowerCase(recipe.title), ConfigOf(context).keywords) >= 10
        /\ includes(toLowerCase(recipe.title), "ginger")

\* C16 (amended): for the Scenario 1 recipe against first_thing the tag
\* section adds 0, because "Nausea Relief" contains no first_thing keyword,
\* and the title section adds +30: +15 for "ginger" and +15 for "tea".
C16_TagAddsNothing ==
    AtScenario(Scenario1, "calories") =>
        /\ score = 30
        /\ {k \in Range(ConfigOf(context).keywords) : includes(toLowerCase(recipe.title), k)}
              = {"ginger", "tea"}
        /\ \A k \in Range(ConfigOf(context).keywords) : ~includes("nausea relief", k)

C16_Witness == AtScenario(Scenario1, "calories") /\ score = 30

\* C17: the Scenario 2 recipe scored against first_thing is negative.
C17_SalmonNegative == AtScenario(Scenario2, "scored") => ret < 0

C17_Witness == AtScenario(Scenario2, "scored") /\ ret < 0

\* C18 (as claimed): for the Scenario 2 recipe against first_thing no
\* keyword matches and the score is -15 - 25 = -40.
C18_SalmonMinus40 ==
    AtScenario(Scenario2, "return") =>
        /\ score = 0 - 40
        /\ \A k \in Range(ConfigOf(context).keywords) : ~includes(toLowerCase(recipe.title), k)

\* C18 (amended): for the Scenario 2 recipe against first_thing the keyword
\* "tea" occurs in the title inside "Steak" (+15), no other keyword matches
\* the title and none matches a tag, so the score is 15 - 15 - 25 = -25.
C18_SalmonMinus25 ==
    AtScenario(Scenario2, "return") =>
        /\ score = 0 - 25
        /\ {k \in Range(ConfigOf(context).keywords) : includes(toLowerCase(recipe.title), k)}
              = {"tea"}
        /\ CountTagMatches(recipe.pregnancy_tags, ConfigOf(context).keywords) = 0

C18_Witness == AtScenario(Scenario2, "return") /\ score = 0 - 25

\* r with every absent macro field set to 0
ZeroFilled(r) ==
    [r EXCEPT !.macros = [k \in {"calories", "protein", "carbs", "fat"} |->
        IF k \in DOMAIN r.macros THEN r.macros[k] ELSE 0]]

\* C19: a recipe without a calories (or fat) field scores as the same recipe
\* with that field 0; absent calories get the +10 fit bonus and absent fat
\* no heavy-food penalty.
C19_MissingMacrosAsZero ==
    (pc = "scored" /\ ~HasMacros(recipe)) =>
        /\ ret = scoreRecipeForContext(ZeroFilled(recipe), context)
        /\ "calories" \notin DOMAIN recipe.macros =>
              ret = titleKeywordScore(recipe, context) + tagKeywordScore(recipe, context) + 10
                      + purposeScore(recipe, context) + specialScore(ZeroFilled(recipe), context)
        /\ ("fat" \notin DOMAIN recipe.macros /\ recipe.macros.calories <= 300) =>
              ret >= GeneralScore(recipe, context)

C19_Witness ==
    /\ pc = "scored"
    /\ context = "quick_bite"
    /\ "calories" \notin DOMAIN recipe.macros
    /\ recipe.macros.fat = 16
    /\ ret = GeneralScore(recipe, context)
    /\ ret >= 10

UpperOf == [c \in {LowerOf[u] : u \in DOMAIN LowerOf} |->
              CHOOSE u \in DOMAIN LowerOf : LowerOf[u] = c]

\* every letter of s changed to the other case
RECURSIVE SwapCase(_)
SwapCase(s) ==
    IF Len(s) = 0 THEN ""
    ELSE LET c == SubSeq(s, 1, 1)
         IN  (IF c \in DOMAIN LowerOf THEN LowerOf[c]
              ELSE IF c \in DOMAIN UpperOf THEN UpperOf[c] ELSE c)
                 \o SwapCase(SubSeq(s, 2, Len(s)))

RECURSIVE UpperCase(_)
UpperCase(s) ==
    IF Len(s) = 0 THEN ""
    ELSE LET c == SubSeq(s, 1, 1)
         IN  (IF c \in DOMAIN UpperOf THEN UpperOf[c] ELSE c) \o UpperCase(SubSeq(s, 2, Len(s)))

Recased(r, F(_)) ==
    [r EXCEPT !.title = F(@),
              !.pregnancy_tags = [i \in 1..Len(r.pregnancy_tags) |-> F(r.pregnancy_tags[i])]]

\* C20: the returned score and the detected purposes are those of the same
\* recipe with the letter case of its title and tags changed (every letter
\* swapped; for the purposes also all upper case); every configured keyword
\* is lower-case.
C20_CaseInsensitive ==
    [][pc = "return" =>
          /\ ret' = scoreRecipeForContext(Recased(recipe, SwapCase), context)
          /\ detectedPurposes = detectPurpose(Recased(recipe, SwapCase))
          /\ detectedPurposes = detectPurpose(Recased(recipe, UpperCase))
          /\ \A k \in Range(ConfigOf(context).keywords) : toLowerCase(k) = k]_vars

C20_Witness ==
    /\ pc = "scored"
    /\ context = "wind_down"
    /\ recipe.title = "CHEESE TOAST"
    /\ recipe.pregnancy_tags = <<"Light Energy Snack">>
    /\ ret >= 45

\* C24: the returned score is a multiple of 5 and never below -40, and never
\* below -15 outside first_thing; a section lowers the score only in two
\* ways: the calorie section by 15 and the first_thing special-case section
\* by 25 (the latter possibly offset by its +30 bonus).
C24_ScoreLowerBound ==
    [][/\ (score' < score =>
              \/ pc = "calories" /\ score' - score = 0 - 15
              \/ pc = "special" /\ context = "first_thing" /\ score' - score = 0 - 25)
       /\ (pc = "calories" => score' - score \in {10, 0, 0 - 15})
       /\ (pc = "special" =>
              score' - score \in (IF context = "first_thing" THEN {0, 30, 5, 0 - 25}
                                  ELSE IF context = "wind_down" THEN {0, 20} ELSE {0}))
       /\ (pc = "return" =>
              /\ ret' % 5 = 0
              /\ ret' >= 0 - 40
              /\ (context # "first_thing" => ret' >= 0 - 15))]_vars

C24_Witness ==
    /\ pc = "scored"
    /\ context = "first_thing"
    /\ recipe.title = "Plain Rice"
    /\ fatAbove15(recipe)
    /\ ret = 0 - 40

\* the +30 of the first_thing special case, from its statement
GentleBonus(r) ==
    IF includes(toLowerCase(r.title), "ginger") \/ includes(toLowerCase(r.title), "cracker")
    THEN 30 ELSE 0

\* C25: against first_thing, where 1.5 * maxCalories = 300, the calorie
\* section subtracts 15 exactly when calories > 300, and every such recipe
\* also loses 25 in the special-case section (-40 in total next to its
\* bonuses); a recipe with 200 < calories <= 300 and fat <= 15 loses nothing
\* in either section.
C25_PenaltiesCoincide ==
    [][context = "first_thing" =>
          LET c == caloriesOf(recipe)
          IN  /\ 3 * ConfigOf(context).maxCalories = 2 * 300
              /\ (pc = "calories" => (score' - score = 0 - 15 <=> c > 300))
              /\ (pc = "calories" /\ c > 200 /\ c <= 300 => score' = score)
              /\ (pc = "special" /\ c > 300 =>
                    /\ score' - score = GentleBonus(recipe) - 25
                    /\ score' = titleKeywordScore(recipe, context)
                                  + tagKeywordScore(recipe, context)
                                  + purposeScore(recipe, context)
                                  + GentleBonus(recipe) - 40)
              /\ (pc = "special" /\ score' - score >= GentleBonus(recipe) => c <= 300)
              /\ (pc = "special" /\ c > 200 /\ c <= 300 /\ ~fatAbove15(recipe) =>
                    score' - score = GentleBonus(recipe))]_vars

C25_Witness ==
    /\ pc = "return"
    /\ context = "first_thing"
    /\ recipe.title = "Ginger Crackers"
    /\ caloriesOf(recipe) = 301
    /\ ~fatAbove15(recipe)
    /\ score = BeforePurpose(recipe, context) + purposeScore(recipe, context) + 5
    /\ calorieScore(recipe, context) = 0 - 15

----------------------------------------------------------------------------
(* Properties of the enrichment script (EnrichSpec) *)

EnrichFinished == pc \in {"enrich_returned", "enrich_thrown"}

\* a rate-limit failure, from its statement
RateLimited(o) ==
    /\ o.kind = "error"
    /\ o \in {[kind |-> "error", message |-> m] :
                 m \in {"[429 Too Many Requests] quota exceeded", "RESOURCE_EXHAUSTED"}}

\* C27: enrichRecipe is called at most `retries` times, each time with the
\* same recipe; the first success is returned; an error that is not a
\* rate-limit error is rethrown at once, with no wait behind it; and null is
\* returned exactly when all `retries` calls failed with a rate-limit error.
C27_RetryContract ==
    /\ Len(outcomes) <= retries
    /\ EnrichFinished =>
          LET n == Len(outcomes)
          IN  /\ \A i \in 1..n : outcomes[i][1] = recipe.id
              /\ \A i \in 1..(n - 1) : RateLimited(outcomes[i][2])
              /\ (pc = "enrich_returned" /\ ret # NullResult) =>
                    /\ n >= 1
                    /\ ret = outcomes[n][2]
                    /\ ret = [kind |-> "enriched", id |-> recipe.id]
              /\ pc = "enrich_thrown" =>
                    /\ n >= 1
                    /\ ret = outcomes[n][2]
                    /\ ret.kind = "error"
                    /\ ~RateLimited(ret)
                    /\ Len(waits) = n - 1
              /\ (pc = "enrich_returned" /\ ret = NullResult)
                    <=> (n = retries /\ \A i \in 1..n : RateLimited(outcomes[i][2]))

C27_Witness ==
    /\ pc = "enrich_returned"
    /\ retries = DefaultRetries
    /\ Len(outcomes) = 3
    /\ RateLimited(outcomes[1][2])
    /\ RateLimited(outcomes[2][2])
    /\ outcomes[3][2].kind = "enriched"
    /\ ret = outcomes[3][2]

\* C28 (as claimed): the k-th wait lasts 2^k * 10 s and is followed by another
\* call of enrichRecipe before the function returns.
C28_EveryWaitBeforeRetry ==
    EnrichFinished =>
        \A k \in 1..Len(waits) :
            /\ waits[k] = pow2(k) * 10000
            /\ Len(outcomes) > k
            /\ outcomes[k + 1][1] = recipe.id

----------------------------------------------------------------------------
(* Properties of the recipe generator (GenSpec) *)

\* C29 (as claimed): a run that finds 200 or more recipes inserts nothing,
\* any other run asks for min(BATCH_SIZE, 200 - currentCount) recipes, and
\* after a run the table holds at most 200 recipes, whatever number of
\* recipes the generation service returned.
C29_StopsAtMaxRecipes ==
    /\ pc \in {"gen_generate", "gen_insert"} =>
          /\ currentCount < 200
          /\ toGenerate = IF 200 - currentCount < 10 THEN 200 - currentCount ELSE 10
    /\ (pc = "gen_done" /\ currentCount >= 200) => dbCount = currentCount
    /\ pc = "gen_done" => dbCount <= 200

----------------------------------------------------------------------------
(* Properties of the SwipeDeck (DeckSpec) *)

SwipedIds == {swiped[i][1] : i \in 1..Len(swiped)}

\* C30 (as claimed): between resets onSwipe is invoked at most once for each
\* recipe, and currentIndex has only moved past recipes onSwipe was invoked
\* for: none is reported twice and none is skipped.
C30_OnceEachNoSkip ==
    /\ \A i, j \in 1..Len(swiped) : swiped[i][1] = swiped[j][1] => i = j
    /\ \A i \in 1..Len(recipes) : i <= currentIndex => recipes[i].id \in SwipedIds
    /\ currentIndex <= Len(recipes)

====
